---- MODULE Spec2Model ----
(***************************************************************************)
(* Model of backend/main.py, the ELI5.ai explanation service: the module   *)
(* level client handle, the handlers root, health and explain_topic, and   *)
(* the cost formatting of a successful response.                           *)
(*                                                                         *)
(* Text is a sequence of one-character strings, so that strip() and the    *)
(* "%.6f" formatting are computed, not assumed.  An optional value is      *)
(* either None or a record, so that a null field of the completion reply   *)
(* can be told apart from a present one.  Temperatures are in tenths.      *)
(***************************************************************************)
EXTENDS Integers, Sequences, FiniteSets, TLC

VARIABLES api_key, client, requests, aux, arrived, outbound, passed

vars == <<api_key, client, requests, aux, arrived, outbound, passed>>

----------------------------------------------------------------------------
(* Bounds of the model *)

\* longest topic text the requests carry
MaxTopicLen == 2
\* number of requests the handlers may have in progress at once
MaxInFlight == 2
\* number of requests that arrive in one behaviour
MaxRequests == 3
\* token counts 0..MaxCostTokens, and that many multiples of TokenStride,
\* are priced
MaxCostTokens == 200
TokenStride == 4099

Slots == 1..MaxInFlight

None == [none |-> TRUE]

----------------------------------------------------------------------------
(* Text helpers: Python's str.strip() *)

Whitespace == {" ", "\t", "\n"}

RECURSIVE LStrip(_)
LStrip(s) ==
    IF s = <<>> THEN <<>>
    ELSE IF Head(s) \in Whitespace THEN LStrip(Tail(s)) ELSE s

RECURSIVE RStrip(_)
RStrip(s) ==
    IF s = <<>> THEN <<>>
    ELSE IF s[Len(s)] \in Whitespace THEN RStrip(SubSeq(s, 1, Len(s) - 1)) ELSE s

strip(s) == RStrip(LStrip(s))

----------------------------------------------------------------------------
(* Module state: lines 20-23 *)

\* client = OpenAI(api_key=api_key) if api_key else None
MakeClient(key) ==
    IF key = None \/ key.value = "" THEN None ELSE [api_key |-> key.value]

ApiKeys == {None, [value |-> ""], [value |-> "sk-test"]}

----------------------------------------------------------------------------
(* explain_topic: the guards, lines 56-66 *)

HTTPException(status_code, detail) ==
    [status_code |-> status_code, body |-> [detail |-> detail]]

NotConfigured ==
    HTTPException(500, <<"API key not configured. Please set OPENAI_API_KEY in .env file">>)

NoTopic == HTTPException(400, <<"Please provide a topic to explain">>)

\* variant: `not request.topic` alone, without the strip() test
TopicOnlyEmpty(topic) == topic = <<>>

\* not request.topic or len(request.topic.strip()) == 0
TopicMissing(topic) == topic = <<>> \/ Len(strip(topic)) = 0

\* variant: the topic guard placed before the credential guard
GuardsTopicFirst(c, topic) ==
    IF TopicMissing(topic) THEN NoTopic
    ELSE IF c = None THEN NotConfigured
    ELSE None

\* variant: the credential guard left out
GuardsNoClientCheck(c, topic) ==
    IF TopicMissing(topic) THEN NoTopic ELSE None

\* the outcome of the two guards: an HTTPException, or None when both pass
Guards(c, topic) ==
    IF c = None THEN NotConfigured
    ELSE IF TopicMissing(topic) THEN NoTopic
    ELSE None

----------------------------------------------------------------------------
(* explain_topic: the preset table and its lookup, lines 68-96 *)

complexity_configs ==
    [eli5 |->
       [instruction |-> "Explain in 5-10 sentences using simple words a 5-year-old would understand. Use a fun analogy.",
        max_tokens |-> 150, temperature |-> 7],
     eli10 |->
       [instruction |-> "Explain in 3-4 sentences for a 10-year-old. Use clear, relatable examples. Break into 2 short paragraphs.",
        max_tokens |-> 200, temperature |-> 7],
     teen |->
       [instruction |-> "Explain in 4-5 sentences for a teenager. Include some detail but keep it interesting. Use 2 paragraphs.",
        max_tokens |-> 250, temperature |-> 7],
     college |->
       [instruction |-> "Provide a concise college-level explanation in 5-6 sentences. Use proper terminology. Structure in 2-3 short paragraphs.",
        max_tokens |-> 300, temperature |-> 6],
     expert |->
       [instruction |-> "Provide an expert-level technical explanation using advanced terminology, academic language, and field-specific jargon. Be precise and sophisticated. 3 paragraphs max. Sound impressive and authoritative.",
        max_tokens |-> 350, temperature |-> 5]]

\* variant: another preset as the fallback
LookupDefaultExpert(complexity) ==
    IF complexity \in DOMAIN complexity_configs
    THEN complexity_configs[complexity]
    ELSE complexity_configs["expert"]

\* complexity_configs.get(request.complexity, complexity_configs["eli5"])
Lookup(complexity) ==
    IF complexity \in DOMAIN complexity_configs
    THEN complexity_configs[complexity]
    ELSE complexity_configs["eli5"]

----------------------------------------------------------------------------
(* explain_topic: the outbound call, lines 99-113 *)

SystemPersona ==
    "You are a concise AI tutor. Keep explanations SHORT and TO THE POINT. Always break longer answers into short paragraphs for readability. No fluff or unnecessary details."

\* f"{config['instruction']}\n\nTopic: {request.topic}\n\nBe concise and clear. ..."
UserPrompt(config, topic) ==
    <<config.instruction, "\n\nTopic: ">> \o topic
        \o <<"\n\nBe concise and clear. Use paragraph breaks for readability.">>

CreateArgs(config, topic) ==
    [model |-> "gpt-4o-mini",
     messages |-> << [role |-> "system", content |-> <<SystemPersona>>],
                     [role |-> "user", content |-> UserPrompt(config, topic)] >>,
     max_tokens |-> config.max_tokens,
     temperature |-> config.temperature]

----------------------------------------------------------------------------
(* Arithmetic on naturals held as little-endian sequences of 8-bit limbs,  *)
(* wide enough for the 53-bit significand of a double and its products.    *)

Limb == 2^8

RECURSIVE MulSmall(_, _, _)
\* a * k + carry
MulSmall(a, k, carry) ==
    IF a = <<>>
    THEN IF carry = 0 THEN <<>>
         ELSE <<carry % Limb>> \o MulSmall(<<>>, k, carry \div Limb)
    ELSE LET t == Head(a) * k + carry
         IN  <<t % Limb>> \o MulSmall(Tail(a), k, t \div Limb)

RECURSIVE DivRem(_, _)
\* quotient and remainder of a by the small divisor d
DivRem(a, d) ==
    IF a = <<>> THEN [q |-> <<>>, r |-> 0]
    ELSE LET hi == DivRem(Tail(a), d)
             t  == hi.r * Limb + Head(a)
         IN  [q |-> <<t \div d>> \o hi.q, r |-> t % d]

RECURSIVE Trim(_)
Trim(a) ==
    IF a = <<>> THEN <<>>
    ELSE IF a[Len(a)] = 0 THEN Trim(SubSeq(a, 1, Len(a) - 1)) ELSE a

RECURSIVE Bits(_)
Bits(n) == IF n = 0 THEN 0 ELSE 1 + Bits(n \div 2)

BitLen(a) ==
    LET t == Trim(a)
    IN  IF t = <<>> THEN 0 ELSE 8 * (Len(t) - 1) + Bits(t[Len(t)])

RECURSIVE ToInt(_)
ToInt(a) == IF a = <<>> THEN 0 ELSE Head(a) + Limb * ToInt(Tail(a))

ShiftLimbs(a, k) == [i \in 1..k |-> 0] \o a

----------------------------------------------------------------------------
(* The cost of a reply, line 124: f"${total_tokens * 0.0000015:.6f}"       *)

\* a double is Significand * 2^-(8 * ScaleLimbs); 0.0000015 lies in
\* [2^-20, 2^-19), so its 53-bit significand is scaled by 2^-72
ScaleLimbs == 9

SignificandBits == 53

\* the double nearest to the literal 15 / 10^7: round(15 * 2^72 / 10^7),
\* computed as floor((15 * 2^73 + 10^7) / (2 * 10^7))
PricePerToken ==
    LET twice == MulSmall(ShiftLimbs(<<30>>, ScaleLimbs), 1, 10000000)
    IN  Trim(DivRem(DivRem(twice, 2000).q, 10000).q)

\* a with all but its SignificandBits leading bits rounded away, ties to even
RoundToDouble(a) ==
    LET len == BitLen(a)
    IN  IF len <= SignificandBits THEN Trim(a)
        ELSE LET s    == len - SignificandBits
                 dr   == DivRem(a, 2^s)
                 up   == 2 * dr.r > 2^s
                         \/ (2 * dr.r = 2^s /\ dr.q[1] % 2 = 1)
                 q    == IF up THEN MulSmall(dr.q, 1, 1) ELSE dr.q
             IN  Trim(MulSmall(q, 2^s, 0))

\* float(total_tokens) * 0.0000015, in units of 2^-72
TokenCost(total_tokens) ==
    RoundToDouble(MulSmall(PricePerToken, total_tokens, 0))

\* the number of millionths "%.6f" prints for x * 2^-72: the nearest one,
\* ties to even
Millionths(x) ==
    LET scaled == MulSmall(MulSmall(x, 1000, 0), 1000, 0)
        padded == scaled \o [i \in 1..(ScaleLimbs + 1) |-> 0]
        frac   == SubSeq(padded, 1, ScaleLimbs)
        whole  == ToInt(Trim(SubSeq(padded, ScaleLimbs + 1, Len(scaled))))
        top    == frac[ScaleLimbs]
        rest   == \E i \in 1..(ScaleLimbs - 1) : frac[i] # 0
        up     == top > Limb \div 2
                  \/ (top = Limb \div 2 /\ (rest \/ whole % 2 = 1))
    IN  IF up THEN whole + 1 ELSE whole

DecimalDigits == <<"0", "1", "2", "3", "4", "5", "6", "7", "8", "9">>

RECURSIVE Decimal(_)
\* the decimal digits of n, without leading zeros
Decimal(n) ==
    IF n < 10 THEN <<DecimalDigits[n + 1]>>
    ELSE Decimal(n \div 10) \o <<DecimalDigits[(n % 10) + 1]>>

RECURSIVE ZeroPad(_, _)
ZeroPad(s, width) == IF Len(s) >= width THEN s ELSE ZeroPad(<<"0">> \o s, width)

\* variant: "%.5f"
FormatCostFiveDigits(total_tokens) ==
    LET m == Millionths(TokenCost(total_tokens)) \div 10
    IN  <<"$">> \o Decimal(m \div 100000) \o <<".">>
            \o ZeroPad(Decimal(m % 100000), 5)

\* f"${total_tokens * 0.0000015:.6f}"
FormatCost(total_tokens) ==
    LET m == Millionths(TokenCost(total_tokens))
    IN  <<"$">> \o Decimal(m \div 1000000) \o <<".">>
            \o ZeroPad(Decimal(m % 1000000), 6)

----------------------------------------------------------------------------
(* explain_topic: reading the reply, lines 115-131 *)

\* what client.chat.completions.create does: it raises, or returns a reply
\* whose choices, message content and usage may each be missing
Raises(message) == [raised |-> TRUE, error |-> message]

Completion(choices, usage) == [raised |-> FALSE, choices |-> choices, usage |-> usage]

Choice(content) == [message |-> [content |-> content]]

Text(s) == [text |-> s]

Usage(n) == [total_tokens |-> n]

\* variant: the status chosen by the kind of error
UpstreamErrorByKind(message) ==
    IF message = "Rate limit reached" THEN HTTPException(429, <<"Error: ", message>>)
    ELSE HTTPException(500, <<"Error: ", message>>)

\* except Exception as e: raise HTTPException(500, f"Error: {str(e)}")
UpstreamError(message) == HTTPException(500, <<"Error: ", message>>)

\* variant: a missing choice or content read as empty text
ExplanationUnchecked(reply) ==
    IF reply.choices = <<>> THEN [ok |-> TRUE, value |-> <<>>]
    ELSE IF reply.choices[1].message.content = None THEN [ok |-> TRUE, value |-> <<>>]
    ELSE [ok |-> TRUE, value |-> strip(reply.choices[1].message.content.text)]

\* response.choices[0].message.content.strip(), or the error it raises
Explanation(reply) ==
    IF reply.choices = <<>>
    THEN [ok |-> FALSE, error |-> "list index out of range"]
    ELSE IF reply.choices[1].message.content = None
    THEN [ok |-> FALSE, error |-> "'NoneType' object has no attribute 'strip'"]
    ELSE [ok |-> TRUE, value |-> strip(reply.choices[1].message.content.text)]

\* variant: the request read from a handle shared by all calls in progress
SuccessBodyOfFirstSlot(request, explanation, total_tokens) ==
    [success |-> TRUE,
     topic |-> requests[1].topic,
     complexity |-> requests[1].complexity,
     explanation |-> explanation,
     tokens_used |-> total_tokens,
     model |-> "GPT-4o-mini",
     cost |-> FormatCost(total_tokens)]

\* the dictionary returned at lines 117-125
SuccessBody(request, explanation, total_tokens) ==
    [success |-> TRUE,
     topic |-> request.topic,
     complexity |-> request.complexity,
     explanation |-> explanation,
     tokens_used |-> total_tokens,
     model |-> "GPT-4o-mini",
     cost |-> FormatCost(total_tokens)]

\* the response of the try block, lines 98-131, to the reply of the call
Outcome(request, reply) ==
    IF reply.raised THEN UpstreamError(reply.error)
    ELSE LET e == Explanation(reply)
         IN  IF ~e.ok THEN UpstreamError(e.error)
             ELSE IF reply.usage = None
             THEN UpstreamError("'NoneType' object has no attribute 'total_tokens'")
             ELSE [status_code |-> 200,
                   body |-> SuccessBody(request, e.value, reply.usage.total_tokens)]

----------------------------------------------------------------------------
(* The requests in progress *)

\* the frame of one explain_topic call: its request, its locals and where
\* it stands
Frame(pc, topic, complexity) ==
    [pc |-> pc, topic |-> topic, complexity |-> complexity, config |-> None,
     calls |-> 0, sent |-> None, reply |-> None, response |-> None]

Free == Frame("Free", <<>>, "")

Terminal == {"Done", "Failed"}

Init ==
    /\ api_key \in ApiKeys
    /\ client = MakeClient(api_key)
    /\ requests = [r \in Slots |-> Free]
    /\ aux = None
    /\ arrived = 0
    /\ outbound = 0
    /\ passed = 0

\* POST /explain reaches the handler with a request body
Arrive(r, topic, complexity) ==
    /\ arrived < MaxRequests
    /\ requests[r].pc = "Free"
    /\ requests' = [requests EXCEPT ![r] = Frame("Validating", topic, complexity)]
    /\ arrived' = arrived + 1
    /\ UNCHANGED <<api_key, client, aux, outbound, passed>>

\* lines 56-66
Validate(r) ==
    /\ requests[r].pc = "Validating"
    /\ LET failure == Guards(client, requests[r].topic)
       IN  IF failure # None
           THEN /\ requests' = [requests EXCEPT ![r].pc = "Failed",
                                                ![r].response = failure]
                /\ passed' = passed
           ELSE /\ requests' = [requests EXCEPT ![r].pc = "Resolving"]
                /\ passed' = passed + 1
    /\ UNCHANGED <<api_key, client, aux, arrived, outbound>>

\* lines 68-96
Resolve(r) ==
    /\ requests[r].pc = "Resolving"
    /\ requests' = [requests EXCEPT ![r].pc = "Calling",
                                    ![r].config = Lookup(requests[r].complexity)]
    /\ UNCHANGED <<api_key, client, aux, arrived, outbound, passed>>

\* variant: the call made without waiting for the guards
SendBeforeValidation(r) ==
    /\ requests[r].pc \in {"Validating", "Calling"}
    /\ requests[r].calls = 0
    /\ requests' = [requests EXCEPT
                      ![r].calls = 1,
                      ![r].sent = CreateArgs(Lookup(requests[r].complexity),
                                             requests[r].topic)]
    /\ outbound' = outbound + 1
    /\ UNCHANGED <<api_key, client, aux, arrived, passed>>

\* lines 99-113: the call leaves the process
Send(r) ==
    /\ requests[r].pc = "Calling"
    /\ requests[r].calls = 0
    /\ requests' = [requests EXCEPT
                      ![r].calls = 1,
                      ![r].sent = CreateArgs(requests[r].config, requests[r].topic)]
    /\ outbound' = outbound + 1
    /\ UNCHANGED <<api_key, client, aux, arrived, passed>>

\* variant: a call that raised is made once more
ReceiveAndRetry(r, reply) ==
    /\ requests[r].pc = "Calling"
    /\ requests[r].calls >= 1
    /\ IF reply.raised /\ requests[r].calls < 2
       THEN /\ requests' = [requests EXCEPT ![r].calls = @ + 1]
            /\ outbound' = outbound + 1
       ELSE LET response == Outcome(requests[r], reply)
            IN  /\ requests' = [requests EXCEPT
                      ![r].pc = IF response.status_code = 200 THEN "Done" ELSE "Failed",
                      ![r].reply = reply,
                      ![r].response = response]
                /\ outbound' = outbound
    /\ UNCHANGED <<api_key, client, aux, arrived, passed>>

\* lines 113-131: the call returns or raises, and the handler ends
Receive(r, reply) ==
    /\ requests[r].pc = "Calling"
    /\ requests[r].calls = 1
    /\ LET response == Outcome(requests[r], reply)
       IN  requests' = [requests EXCEPT
                          ![r].pc = IF response.status_code = 200 THEN "Done" ELSE "Failed",
                          ![r].reply = reply,
                          ![r].response = response]
    /\ UNCHANGED <<api_key, client, aux, arrived, outbound, passed>>

\* the framework sends the response and the frame is gone
Respond(r) ==
    /\ requests[r].pc \in Terminal
    /\ requests' = [requests EXCEPT ![r] = Free]
    /\ UNCHANGED <<api_key, client, aux, arrived, outbound, passed>>

\* GET /, lines 31-41 (the status text of the source ends with an emoji)
root ==
    /\ arrived < MaxRequests
    /\ aux' = [status_code |-> 200,
               body |-> [message |-> "Welcome to ELI5.ai API!",
                         status |-> "Server is running",
                         model |-> "GPT-4o-mini (Optimized)",
                         endpoints |-> [explain |-> "POST - Get ELI5 explanation",
                                        health |-> "GET - Check server health"]]]
    /\ arrived' = arrived + 1
    /\ UNCHANGED <<api_key, client, requests, outbound, passed>>

\* lines 46-51
HealthBody ==
    [status |-> "healthy",
     api |-> IF client # None THEN "connected" ELSE "no API key",
     model |-> "GPT-4o-mini"]

\* GET /health, lines 44-51
health ==
    /\ arrived < MaxRequests
    /\ aux' = [status_code |-> 200, body |-> HealthBody]
    /\ arrived' = arrived + 1
    /\ UNCHANGED <<api_key, client, requests, outbound, passed>>

----------------------------------------------------------------------------
(* Inputs *)

TopicChars == {" ", "\t", "a"}

RECURSIVE TextsUpTo(_, _)
TextsUpTo(chars, n) ==
    IF n = 0 THEN {<<>>}
    ELSE LET shorter == TextsUpTo(chars, n - 1)
         IN  shorter \cup {Append(s, c) : s \in shorter, c \in chars}

Topics == TextsUpTo(TopicChars, MaxTopicLen)

Complexities == DOMAIN complexity_configs \cup {"ELI5", ""}

Contents == {None, Text(<<"I">>), Text(<<" ", "I", "\n">>), Text(<<" ">>)}

TokenCounts == {0, 1, 80}

Replies ==
    {Raises(m) : m \in {"Rate limit reached", "Connection error."}}
      \cup {Completion(<<>>, Usage(1))}
      \cup {Completion(<<Choice(c)>>, u) :
              c \in Contents, u \in {None} \cup {Usage(n) : n \in TokenCounts}}

\* the handler has no await: one explain_topic call runs at a time
Next ==
    \/ \E topic \in Topics, complexity \in Complexities :
          /\ \A q \in Slots : requests[q].pc = "Free"
          /\ Arrive(1, topic, complexity)
    \/ \E r \in Slots : Validate(r)
    \/ \E r \in Slots : Resolve(r)
    \/ \E r \in Slots : Send(r)
    \/ \E r \in Slots, reply \in Replies : Receive(r, reply)
    \/ \E r \in Slots : Respond(r)
    \/ root
    \/ health

Spec == Init /\ [][Next]_vars

----------------------------------------------------------------------------
(* Several explain_topic calls in progress at once, each stopping at its   *)
(* outbound call: the schedule section 5 of the specification describes.   *)
(* It contains every schedule of the handlers, the serial one included.    *)

ConcTopics == {<<"a">>, <<"b">>, <<" ">>}

ConcComplexities == {"eli5", "expert", "ELI5"}

ConcReplies ==
    {Raises("Rate limit reached"),
     Completion(<<>>, Usage(1)),
     Completion(<<Choice(Text(<<"I", " ">>))>>, Usage(80))}

NextConc ==
    \/ \E r \in Slots, topic \in ConcTopics, complexity \in ConcComplexities :
          Arrive(r, topic, complexity)
    \/ \E r \in Slots : Validate(r)
    \/ \E r \in Slots : Resolve(r)
    \/ \E r \in Slots : Send(r)
    \/ \E r \in Slots, reply \in ConcReplies : Receive(r, reply)
    \/ health

SpecConc == Init /\ [][NextConc]_vars

----------------------------------------------------------------------------
(* The cost of every token count: one configured service, whose replies    *)
(* carry the token counts to price.                                        *)

CostTokenCounts ==
    (0..MaxCostTokens) \cup {k * TokenStride : k \in 1..MaxCostTokens}

InitCost ==
    /\ Init
    /\ api_key = [value |-> "sk-test"]

NextCost ==
    \/ /\ \A q \in Slots : requests[q].pc = "Free"
       /\ Arrive(1, <<"a">>, "eli5")
    \/ Validate(1)
    \/ Resolve(1)
    \/ Send(1)
    \/ \E n \in CostTokenCounts :
          Receive(1, Completion(<<Choice(Text(<<"I">>))>>, Usage(n)))
    \/ Respond(1)

SpecCost == InitCost /\ [][NextCost]_vars

----------------------------------------------------------------------------
(* Vocabulary of the properties, stated without the handler's operators *)

AllWhitespace(topic) == \A i \in 1..Len(topic) : topic[i] \in Whitespace

Finished(r) == requests[r].pc \in Terminal

PresetKeys == {"eli5", "eli10", "teen", "college", "expert"}

ConfigErrorText == "API key not configured. Please set OPENAI_API_KEY in .env file"

TopicErrorText == "Please provide a topic to explain"

IsError(response, status_code, text) ==
    /\ response.status_code = status_code
    /\ response.body = [detail |-> <<text>>]

\* the reply of a call that gives the handler nothing to return
Unusable(reply) ==
    \/ reply.raised
    \/ reply.choices = <<>>
    \/ reply.choices[1].message.content = None
    \/ reply.usage = None

\* t is s without its leading and trailing whitespace
Stripped(s, t) ==
    /\ t # <<>> => t[1] \notin Whitespace /\ t[Len(t)] \notin Whitespace
    /\ \E i \in 0..Len(s) :
          /\ i + Len(t) <= Len(s)
          /\ SubSeq(s, i + 1, i + Len(t)) = t
          /\ \A k \in 1..Len(s) : (k <= i \/ k > i + Len(t)) => s[k] \in Whitespace

IsHealth(response) == response # None /\ "api" \in DOMAIN response.body

----------------------------------------------------------------------------
(* C1 *)

\* C1 as stated: a finished /explain request whose topic is empty or only
\* whitespace has been answered 400 "Please provide a topic to explain",
\* whatever its complexity and whether or not the credential was configured.
C1_BlankTopicAlways400 ==
    \A r \in Slots :
        Finished(r) /\ AllWhitespace(requests[r].topic)
            => IsError(requests[r].response, 400, TopicErrorText)

\* C1 amended: with the credential configured, a finished /explain request
\* whose topic is empty or only whitespace has been answered 400 "Please
\* provide a topic to explain", whatever its complexity, and no outbound
\* call was made for it.
C1_BlankTopic400WhenConfigured ==
    \A r \in Slots :
        Finished(r) /\ AllWhitespace(requests[r].topic) /\ client # None
            => /\ IsError(requests[r].response, 400, TopicErrorText)
               /\ requests[r].calls = 0

C1_Witness ==
    \E r \in Slots :
        /\ Finished(r)
        /\ client # None
        /\ requests[r].topic = <<" ", "\t">>
        /\ requests[r].complexity = "expert"
        /\ requests[r].response.status_code = 400

----------------------------------------------------------------------------
(* C2 *)

\* C2: when the credential was not set at startup, then after any sequence
\* of requests GET /health has reported api = "no API key", every finished
\* POST /explain has been answered 500 with the configuration message, and
\* no outbound completion call has been made.
C2_Unconfigured ==
    client = None =>
        /\ outbound = 0
        /\ IsHealth(aux) => aux.body.api = "no API key"
        /\ \A r \in Slots :
              /\ requests[r].pc \in {"Free", "Validating", "Failed"}
              /\ requests[r].calls = 0
              /\ Finished(r) => IsError(requests[r].response, 500, ConfigErrorText)

C2_Witness ==
    /\ client = None
    /\ IsHealth(aux)
    /\ arrived = MaxRequests
    /\ \E r \in Slots :
          /\ Finished(r)
          /\ requests[r].topic = <<"a">>
          /\ requests[r].complexity = "teen"

----------------------------------------------------------------------------
(* C3 *)

Eli5Instruction ==
    "Explain in 5-10 sentences using simple words a 5-year-old would understand. Use a fun analogy."

\* C3: a request whose complexity is none of the five keys is resolved to
\* the eli5 preset: the call it sends carries the eli5 instruction followed
\* by its own topic, max_tokens 150 and temperature 0.7; it fails only for
\* a missing credential, a blank topic or an unusable reply; and next to a
\* request with the same topic and complexity "eli5" it sends the same call
\* and, on the same reply, gets the same response but for the complexity
\* the response echoes.
C3_UnknownComplexityIsEli5 ==
    \A r \in Slots :
        requests[r].pc # "Free" /\ requests[r].complexity \notin PresetKeys =>
            /\ requests[r].config # None =>
                  requests[r].config = [instruction |-> Eli5Instruction,
                                        max_tokens |-> 150, temperature |-> 7]
            /\ requests[r].calls > 0 =>
                  /\ requests[r].sent.max_tokens = 150
                  /\ requests[r].sent.temperature = 7
                  /\ requests[r].sent.messages[2].content
                        = <<Eli5Instruction, "\n\nTopic: ">> \o requests[r].topic
                            \o <<"\n\nBe concise and clear. Use paragraph breaks for readability.">>
            /\ requests[r].pc = "Failed" =>
                  \/ client = None
                  \/ AllWhitespace(requests[r].topic)
                  \/ requests[r].reply # None /\ Unusable(requests[r].reply)
            /\ \A q \in Slots :
                  requests[q].complexity = "eli5" /\ requests[q].topic = requests[r].topic =>
                      /\ requests[q].calls > 0 /\ requests[r].calls > 0
                            => requests[q].sent = requests[r].sent
                      /\ Finished(q) /\ Finished(r) /\ requests[q].reply = requests[r].reply =>
                            /\ requests[q].pc = requests[r].pc
                            /\ requests[q].response.status_code = requests[r].response.status_code
                            /\ requests[r].pc = "Failed"
                                  => requests[q].response = requests[r].response
                            /\ requests[r].pc = "Done"
                                  => requests[q].response.body
                                       = [requests[r].response.body EXCEPT !.complexity = "eli5"]

C3_Witness ==
    \E r, q \in Slots :
        /\ requests[r].complexity = "ELI5"
        /\ requests[q].complexity = "eli5"
        /\ requests[r].topic = <<"a">>
        /\ requests[q].topic = <<"a">>
        /\ requests[r].pc = "Done"
        /\ requests[q].pc = "Done"
        /\ requests[r].response.body.complexity = "ELI5"

----------------------------------------------------------------------------
(* C4 *)

IsDigit(ch) == \E d \in 1..10 : DecimalDigits[d] = ch

DigitValue(ch) == (CHOOSE d \in 1..10 : DecimalDigits[d] = ch) - 1

RECURSIVE DigitsValue(_)
DigitsValue(s) ==
    IF s = <<>> THEN 0 ELSE 10 * DigitsValue(SubSeq(s, 1, Len(s) - 1)) + DigitValue(s[Len(s)])

\* cost is "$", an integer part without needless zeros, "." and six digits
CostShape(cost) ==
    /\ Len(cost) >= 9
    /\ cost[1] = "$"
    /\ cost[Len(cost) - 6] = "."
    /\ \A i \in 2..Len(cost) : i # Len(cost) - 6 => IsDigit(cost[i])
    /\ Len(cost) > 9 => cost[2] # "0"

\* the millionths of a dollar that cost reads as
CostMillionths(cost) ==
    DigitsValue(SubSeq(cost, 2, Len(cost) - 7) \o SubSeq(cost, Len(cost) - 5, Len(cost)))

\* C4: in every successful response tokens_used is the total token count of
\* the reply, and cost is "$" followed by a decimal with exactly six digits
\* after the point that is a nearest such decimal to tokens_used * 0.0000015
\* (the product itself when the count is even); 80 tokens give "$0.000120".
C4_Cost ==
    \A r \in Slots :
        requests[r].pc = "Done" =>
            LET n    == requests[r].reply.usage.total_tokens
                body == requests[r].response.body
                m    == CostMillionths(body.cost)
            IN  /\ body.tokens_used = n
                /\ CostShape(body.cost)
                /\ 2 * m - 3 * n \in {-1, 0, 1}
                /\ n = 80 => body.cost = <<"$", "0", ".", "0", "0", "0", "1", "2", "0">>

C4_Witness ==
    \E r \in Slots :
        /\ requests[r].pc = "Done"
        /\ requests[r].reply.usage.total_tokens = 81 * TokenStride
        /\ Len(requests[r].response.body.cost) = 9
        /\ CostMillionths(requests[r].response.body.cost) > 400000

----------------------------------------------------------------------------
(* C5 *)

\* C5: an /explain request has no response until it ends, and it ends in
\* exactly one of two ways: a 200 response with success = TRUE whose
\* explanation is the stripped content of the reply to its one outbound
\* call, that reply being complete (not raised, with a choice, a content
\* and a usage); or a 400 or 500 response whose body carries a detail and
\* nothing else.
C5_AllOrNothing ==
    \A r \in Slots :
        /\ ~Finished(r) => requests[r].response = None
        /\ requests[r].pc = "Done" =>
              /\ requests[r].calls = 1
              /\ requests[r].reply # None
              /\ ~Unusable(requests[r].reply)
              /\ requests[r].response.status_code = 200
              /\ requests[r].response.body.success = TRUE
              /\ Stripped(requests[r].reply.choices[1].message.content.text,
                          requests[r].response.body.explanation)
        /\ requests[r].pc = "Failed" =>
              /\ requests[r].response.status_code \in {400, 500}
              /\ DOMAIN requests[r].response.body = {"detail"}

C5_Witness ==
    \E r \in Slots :
        /\ requests[r].pc = "Failed"
        /\ requests[r].reply # None
        /\ ~requests[r].reply.raised
        /\ requests[r].reply.choices # <<>>
        /\ requests[r].reply.choices[1].message.content = None
        /\ requests[r].reply.usage = Usage(80)

----------------------------------------------------------------------------
(* C6 *)

\* the text of the error that reading an incomplete reply raises
ReadErrorTexts ==
    {"list index out of range",
     "'NoneType' object has no attribute 'strip'",
     "'NoneType' object has no attribute 'total_tokens'"}

\* C6: a request that passed both guards and whose outbound call raised, or
\* returned a reply without a choice, a content or a usage, has ended with
\* status 500 and detail "Error: " followed by the text of the error: the
\* text the call raised with, or the text of the error of reading the
\* reply; the status does not depend on the kind of error.
C6_UpstreamFailureIs500 ==
    \A r \in Slots :
        Finished(r) /\ requests[r].reply # None /\ Unusable(requests[r].reply) =>
            /\ client # None
            /\ ~AllWhitespace(requests[r].topic)
            /\ requests[r].pc = "Failed"
            /\ requests[r].response.status_code = 500
            /\ DOMAIN requests[r].response.body = {"detail"}
            /\ Len(requests[r].response.body.detail) = 2
            /\ requests[r].response.body.detail[1] = "Error: "
            /\ IF requests[r].reply.raised
               THEN requests[r].response.body.detail[2] = requests[r].reply.error
               ELSE requests[r].response.body.detail[2] \in ReadErrorTexts

C6_Witness ==
    \E r \in Slots :
        /\ requests[r].pc = "Failed"
        /\ requests[r].reply = Raises("Rate limit reached")
        /\ requests[r].response.body.detail = <<"Error: ", "Rate limit reached">>

----------------------------------------------------------------------------
(* C7 *)

\* the requests that passed both guards and have not yet made their call
BeforeCall == {r \in Slots : requests[r].pc = "Resolving"
                              \/ (requests[r].pc = "Calling" /\ requests[r].calls = 0)}

\* C7: no request makes more than one outbound call; a finished request has
\* made exactly one if the credential is configured and its topic is not
\* blank, and none otherwise; and the outbound calls made so far, by all
\* requests and GET / and GET /health together, number the /explain
\* requests that passed both guards, less those still on their way to the
\* call.
C7_OneCallPerAcceptedRequest ==
    /\ outbound + Cardinality(BeforeCall) = passed
    /\ passed <= arrived
    /\ \A r \in Slots :
          /\ requests[r].calls \in {0, 1}
          /\ Finished(r) =>
                requests[r].calls
                    = IF client # None /\ ~AllWhitespace(requests[r].topic) THEN 1 ELSE 0

C7_Witness ==
    /\ outbound = 2
    /\ passed = 2
    /\ arrived = 3
    /\ IsHealth(aux)
    /\ \E r \in Slots :
          /\ requests[r].pc = "Failed"
          /\ requests[r].reply = Raises("Connection error.")

----------------------------------------------------------------------------
(* C8 *)

Order ==
    {<<"Free", "Validating">>,
     <<"Validating", "Resolving">>, <<"Resolving", "Calling">>, <<"Calling", "Done">>,
     <<"Validating", "Failed">>, <<"Resolving", "Failed">>, <<"Calling", "Failed">>,
     <<"Done", "Free">>, <<"Failed", "Free">>}

\* C8: a request starts in Validating and moves Validating, Resolving,
\* Calling, Done, or to Failed from one of the first three; its outbound
\* call is made in Calling, with the preset resolved; and once Done or
\* Failed nothing of it changes until its frame is released.
C8_StateOrder ==
    [][\A r \in Slots :
          /\ requests'[r].pc # requests[r].pc
                => <<requests[r].pc, requests'[r].pc>> \in Order
          /\ requests'[r].calls > requests[r].calls
                => /\ requests[r].pc = "Calling"
                   /\ requests[r].config # None
                   /\ requests'[r].pc = "Calling"
          /\ Finished(r)
                => requests'[r] = requests[r] \/ requests'[r] = Free
          /\ requests[r].pc = "Free" /\ requests'[r].pc # "Free"
                => requests'[r] = Frame("Validating", requests'[r].topic,
                                        requests'[r].complexity)]_vars

C8_Witness ==
    /\ arrived = MaxRequests
    /\ \E r \in Slots :
          /\ requests[r].pc = "Done"
          /\ requests[r].config = complexity_configs["college"]

----------------------------------------------------------------------------
(* C9 *)

\* the token budget of each preset, and of the fallback
PresetTokens(complexity) ==
    CASE complexity = "eli10" -> 200
      [] complexity = "teen" -> 250
      [] complexity = "college" -> 300
      [] complexity = "expert" -> 350
      [] OTHER -> 150

\* C9: the client never changes; the call a request sends is made of its
\* own topic and complexity; the response of a finished request echoes its
\* own topic and complexity and carries the content and token count of the
\* reply to its own call; and two finished requests with the same topic,
\* complexity and reply have the same response, whatever else was in
\* progress.
C9_Independent ==
    /\ [][client' = client /\ api_key' = api_key]_vars
    /\ [](\A r \in Slots :
            /\ requests[r].calls > 0 =>
                  LET prompt == requests[r].sent.messages[2].content
                  IN  /\ SubSeq(prompt, 3, Len(prompt) - 1) = requests[r].topic
                      /\ requests[r].sent.max_tokens
                            = PresetTokens(requests[r].complexity)
            /\ requests[r].pc = "Done" =>
                  /\ requests[r].response.body.topic = requests[r].topic
                  /\ requests[r].response.body.complexity = requests[r].complexity
                  /\ Stripped(requests[r].reply.choices[1].message.content.text,
                              requests[r].response.body.explanation)
                  /\ requests[r].response.body.tokens_used
                        = requests[r].reply.usage.total_tokens
            /\ \A q \in Slots :
                  /\ Finished(r) /\ Finished(q)
                  /\ requests[q].topic = requests[r].topic
                  /\ requests[q].complexity = requests[r].complexity
                  /\ requests[q].reply = requests[r].reply
                  => requests[q].response = requests[r].response)

C9_Witness ==
    \E r, q \in Slots :
        /\ requests[r].pc = "Calling"
        /\ requests[r].calls = 1
        /\ requests[r].complexity = "expert"
        /\ requests[q].pc = "Done"
        /\ requests[q].complexity = "ELI5"
        /\ IsHealth(aux)
        /\ outbound = 2

----------------------------------------------------------------------------
(* C10 *)

\* C10: a finished request with a blank topic, handled without a
\* credential, has been answered with the 500 configuration error, and a
\* 400 answer exists only where the credential is configured.
C10_CredentialCheckedFirst ==
    \A r \in Slots :
        Finished(r) =>
            /\ client = None /\ AllWhitespace(requests[r].topic)
                  => IsError(requests[r].response, 500, ConfigErrorText)
            /\ requests[r].response.status_code = 400 => client # None

C10_Witness ==
    \E r \in Slots :
        /\ Finished(r)
        /\ client = None
        /\ requests[r].topic = <<"\t", " ">>
        /\ requests[r].response.status_code = 500

====
